---- MODULE Spec2Model ----
(***************************************************************************)
(* Job ingestion of the Skael backend: the fetch-and-ingest endpoint       *)
(* (db/jobs.py get_jobs), save_job_db and the entity resolvers             *)
(* get_or_create_company / get_or_create_technologies, run by concurrent   *)
(* requests, each with its own SQLAlchemy session (autoflush off) over one *)
(* relational store whose unique constraints are those of models.py.       *)
(* Beside it: the search request of fetch_jobs (api/theirstack.py), the    *)
(* listing endpoints, and the user, activity and resume endpoints with     *)
(* their bearer-token guard (db/users.py, db/activities.py, db/resume.py). *)
(***************************************************************************)
EXTENDS Integers, Sequences, FiniteSets, TLC

\* ------------------------------------------------------------------ bounds
\* longest raw job list handed to one ingest
MaxBatch == 2
\* number of raw jobs, summed over the requests that are ingesting at once
MaxInFlight == 2
\* largest number of years of experience a user gives
MaxExperience == 11
\* largest skip and largest limit of a listing call
MaxSkip == 1
MaxLimit == 2
\* most users registered, and most records logged in the three log tables
MaxUsers == 1
MaxRecords == 2

\* ------------------------------------------------------------ basic values
\* Python None / SQL NULL of a string-valued field
NULL == "<null>"
\* NULL of an integer key (company_obj_id of a job without company link)
NoId == 0

\* the two request workers that may run at the same time
Requests == {1, 2}

\* str.lower() on the strings the model uses
Lower(s) ==
    CASE s = "Go Lang" -> "go lang"
      [] s = "Go-Lang" -> "go-lang"
      [] s = "Engineer" -> "engineer"
      [] s = "Pune" -> "pune"
      [] s = "IN" -> "in"
      [] s = "Python" -> "python"
      [] s = "Ann" -> "ann"
      [] s = "A" -> "a"
      [] s = "B" -> "b"
      [] OTHER         -> s

\* str.replace(" ", "-") on the strings the model uses
ReplaceSpace(s) ==
    CASE s = "go lang" -> "go-lang"
      [] s = "Go Lang" -> "Go-Lang"
      [] OTHER         -> s

\* technology_slug=name.lower().replace(" ", "-")
Slug(name) == ReplaceSpace(Lower(name))

\* Technology.technology_name.ilike(name), for names without wildcards
ILike(column, pattern) == Lower(column) = Lower(pattern)

\* str(job_item.get("id")): a missing id becomes the text "None"
Str(x) == IF x = NULL THEN "None" ELSE x

\* ---------------------------------------------------------- raw job records
\* job_item["company_object"]
Co(cid, dom) == [present |-> TRUE, id |-> cid, domain |-> dom]
NoCo == [present |-> FALSE, id |-> NULL, domain |-> NULL]

\* what api_data(job_item) does for a job: returns a dict with skills,
\* returns something that is not a dict, or raises
Dict(sk) == [kind |-> "dict", skills |-> sk]
Text == [kind |-> "text", skills |-> <<>>]
Raise == [kind |-> "raise", skills |-> <<>>]

\* a raw job: valid = JobListingCreate accepts its fields
Job(id, valid, co, en) ==
    [id |-> id, valid |-> valid, company_object |-> co, enrich |-> en]

\* the raw jobs the job source may return
RawJobs ==
    { Job("A1", TRUE,  Co("C1", "d1"), Dict(<<"Go Lang">>)),
      Job(NULL, TRUE,  Co(NULL, "d2"), Raise),
      Job("A2", TRUE,  Co("C1", "d1"), Dict(<<"go lang", "Go Lang", "go lang">>)),
      Job("A2", TRUE,  NoCo,           Text),
      Job("A1", FALSE, Co("C2", "d2"), Dict(<<>>)) }

\* the raw job lists of length 1..MaxBatch
Batches == UNION { [1..n -> RawJobs] : n \in 1..MaxBatch }

\* what requests.post returned: the status code, whether the body is JSON,
\* and the list under "data" of the body
Response(status_code, json_ok, data) ==
    [status_code |-> status_code, json_ok |-> json_ok, data |-> data]

\* the answers of the job source: a page of raw jobs, an HTTP error status
\* (422 for a rejected payload), or a body that is not JSON
Responses ==
    {Response(200, TRUE, batch) : batch \in Batches}
    \cup {Response(422, TRUE, <<>>), Response(500, TRUE, <<>>),
          Response(200, FALSE, <<>>)}

\* a fetch_jobs that swallows the failure of the call
FetchSwallows(response) == FALSE

\* response.raise_for_status() or response.json() raises in fetch_jobs
FetchRaises(response) ==
    response.status_code >= 400 \/ ~response.json_ok

VARIABLES
    jobs,          \* committed rows of job_listings
    companies,     \* committed rows of companies
    technologies,  \* committed rows of technologies
    req,           \* per request: position, locals of save_job_db, session
    last,          \* the run that has just ended and the response it sent
    user_input,    \* fetch_jobs: the criteria mapping it was called with
    pass_payload,  \* fetch_jobs: the payload of the search request
    fetch_pc,      \* fetch_jobs: position
    listing,       \* the last call of a listing endpoint and what it returned
    users,              \* committed rows of users, with their skills
    user_activity_log,  \* committed rows of user_activity_log
    user_resume,        \* committed rows of user_resume
    match_score_log,    \* committed rows of match_score_log
    outcome,            \* the last call of a user endpoint and its response
    signup              \* per request: position and input of create_user

\* the variables of the ingest, of building the search request, of the
\* listing endpoints and of the user endpoints
ingest_vars == <<jobs, companies, technologies, req, last>>
fetch_vars == <<user_input, pass_payload, fetch_pc>>
user_vars ==
    <<users, user_activity_log, user_resume, match_score_log, outcome, signup>>

vars == <<jobs, companies, technologies, req, last,
          user_input, pass_payload, fetch_pc, listing,
          users, user_activity_log, user_resume, match_score_log, outcome,
          signup>>

\* what an ingest, and what fetch_jobs, leaves alone
beside_ingest == <<fetch_vars, listing, user_vars>>
beside_fetch == <<ingest_vars, listing, user_vars>>

\* ------------------------------------------------------------ the session
\* objects added to the session and not yet flushed
EmptySession == [new_companies |-> <<>>, new_techs |-> <<>>, new_jobs |-> <<>>]

\* a reference to a Technology object: a committed row (by id) or the k-th
\* pending object of the session
DbRef(id) == [new |-> FALSE, k |-> id]
NewRef(k) == [new |-> TRUE, k |-> k]

\* db.query(Technology).filter(Technology.technology_name.ilike(name)).first()
\* autoflush is off: only committed rows are seen
FirstTechILike(techs, name) ==
    LET hits == {t \in techs : ILike(t.technology_name, name)}
    IN  IF hits = {} THEN NoId
        ELSE (CHOOSE t \in hits : \A u \in hits : t.id <= u.id).id

\* get_or_create_technologies(db, skill_names): the list of Technology
\* objects, and the session with the newly added ones
RECURSIVE get_or_create_technologies(_, _, _)
get_or_create_technologies(techs, sess, skill_names) ==
    IF skill_names = <<>> THEN [tech_objects |-> <<>>, sess |-> sess]
    ELSE
      LET name == Head(skill_names)
          hit == FirstTechILike(techs, name)
          sess1 == IF hit # NoId THEN sess
                   ELSE [sess EXCEPT !.new_techs =
                           Append(@, [technology_name |-> name,
                                      technology_slug |-> Slug(name)])]
          tech == IF hit # NoId THEN DbRef(hit)
                  ELSE NewRef(Len(sess1.new_techs))
          rest == get_or_create_technologies(techs, sess1, Tail(skill_names))
      IN  [tech_objects |-> <<tech>> \o rest.tech_objects, sess |-> rest.sess]

\* a resolver without the early return for a missing id
get_or_create_company_always(comps, sess, company_data) ==
    LET hits == {c \in comps : c.api_company_id = Str(company_data.id)}
    IN  IF hits # {}
        THEN [found |-> TRUE, id |-> (CHOOSE c \in hits : TRUE).id,
              created |-> FALSE, sess |-> sess]
        ELSE [found |-> TRUE, id |-> NoId, created |-> TRUE,
              sess |-> [sess EXCEPT !.new_companies =
                          Append(@, [api_company_id |-> Str(company_data.id),
                                     company_domain |-> company_data.domain])]]

\* get_or_create_company(db, company_data): the id of the Company object
\* returned (NoId for None and for a pending object, whose id is not set
\* before the flush), whether a Company was created, and the session
get_or_create_company(comps, sess, company_data) ==
    IF company_data.id = NULL
    THEN [found |-> FALSE, id |-> NoId, created |-> FALSE, sess |-> sess]
    ELSE
      LET hits == {c \in comps : c.api_company_id = Str(company_data.id)}
      IN  IF hits # {}
          THEN [found |-> TRUE,
                id |-> (CHOOSE c \in hits : TRUE).id,
                created |-> FALSE, sess |-> sess]
          ELSE [found |-> TRUE, id |-> NoId, created |-> TRUE,
                sess |-> [sess EXCEPT !.new_companies =
                            Append(@, [api_company_id |-> Str(company_data.id),
                                       company_domain |-> company_data.domain])]]

\* ------------------------------------------------------------ save_job_db
\* job_item["description"] as the job source sent it
RawDescription == "raw"

\* result = api_data(job_item) and the try/except around it: the description
\* and the value of the local variable skills afterwards
Enrich(job_item, skills) ==
    CASE job_item.enrich.kind = "dict" ->
           [description |-> "cleaned", skills |-> job_item.enrich.skills]
      [] job_item.enrich.kind = "text" ->
           [description |-> "text", skills |-> <<>>]
      [] OTHER ->
           [description |-> RawDescription, skills |-> skills]

\* existing_job_ids = {j.api_id for j in db.query(JobListing.api_id).all()}
ExistingJobIds(js) == {j.api_id : j \in js}

\* a loop that stages every job, stored or not
IsNewJobAlways(job_id, existing_job_ids) == TRUE

\* job_id not in existing_job_ids
IsNewJob(job_id, existing_job_ids) == job_id \notin existing_job_ids

\* company_obj_id=db_company.id if db_company and hasattr(db_company, 'id')
\* else None
CompanyObjId(db_company) == IF db_company.found THEN db_company.id ELSE NoId

\* one iteration of the loop over api_response for a job that is new:
\* enrichment, company, technologies, JobListingCreate, jobs_to_add.append
StageJob(techs, comps, st, job_item, n) ==
    LET en == Enrich(job_item, st.skills)
        co == IF job_item.company_object.present
              THEN get_or_create_company(comps, st.sess, job_item.company_object)
              ELSE [found |-> FALSE, id |-> NoId, created |-> FALSE,
                    sess |-> st.sess]
        te == get_or_create_technologies(techs, co.sess, en.skills)
        new_job == [n |-> n,
                    api_id |-> Str(job_item.id),
                    company_obj_id |-> CompanyObjId(co),
                    technologies |-> te.tech_objects,
                    description |-> en.description,
                    skills |-> en.skills]
    IN  [raised |-> ~job_item.valid,
         skills |-> en.skills,
         sess |-> te.sess,
         jobs_to_add |-> IF job_item.valid THEN Append(st.jobs_to_add, new_job)
                         ELSE st.jobs_to_add]

\* a summary with the two counts swapped
SummarySwapped(companies_to_add, jobs_to_add) ==
    [new_companies |-> Len(jobs_to_add), new_jobs |-> Len(companies_to_add)]

\* the summary save_job_db returns; companies_to_add is never appended to
Summary(companies_to_add, jobs_to_add) ==
    [new_companies |-> Len(companies_to_add), new_jobs |-> Len(jobs_to_add)]

\* --------------------------------------------------------------- the store
\* a uniqueness that is checked among the pending rows only
CollidesAmongPending(pending, committed, col) ==
    \E p \in 1..Len(pending), q \in 1..Len(pending) :
       p # q /\ pending[p][col] # NULL /\ pending[p][col] = pending[q][col]

\* two entries of a list of pending rows, or a pending and a committed row,
\* agree on a column (NULLs never collide)
Collides(pending, committed, col) ==
    \/ \E p \in 1..Len(pending), q \in 1..Len(pending) :
          p # q /\ pending[p][col] # NULL /\ pending[p][col] = pending[q][col]
    \/ \E p \in 1..Len(pending) :
          pending[p][col] # NULL /\
          \E c \in committed : c[col] = pending[p][col]

\* a pending job lists the same Technology object twice: the flush inserts
\* the pair (job_listing_id, technology_id), the primary key of the
\* association table, twice
RepeatsTechnology(pending_jobs) ==
    \E k \in 1..Len(pending_jobs) :
       \E p \in 1..Len(pending_jobs[k].technologies),
          q \in 1..Len(pending_jobs[k].technologies) :
          p # q /\ pending_jobs[k].technologies[p] = pending_jobs[k].technologies[q]

\* a schema whose job_listings.api_id is not declared unique
ViolationsWithoutApiId(js, cs, ts, sess) ==
    {c \in {"companies.api_company_id", "companies.company_domain",
            "technologies.technology_name", "technologies.technology_slug",
            "job_technologies_association.pkey"} :
       CASE c = "companies.api_company_id" ->
              Collides(sess.new_companies, cs, "api_company_id")
         [] c = "companies.company_domain" ->
              Collides(sess.new_companies, cs, "company_domain")
         [] c = "technologies.technology_name" ->
              Collides(sess.new_techs, ts, "technology_name")
         [] c = "technologies.technology_slug" ->
              Collides(sess.new_techs, ts, "technology_slug")
         [] OTHER -> RepeatsTechnology(sess.new_jobs)}

\* the unique constraints and primary keys of models.py that the flush of a
\* session violates
Violations(js, cs, ts, sess) ==
    {c \in {"job_listings.api_id", "companies.api_company_id",
            "companies.company_domain", "technologies.technology_name",
            "technologies.technology_slug",
            "job_technologies_association.pkey"} :
       CASE c = "job_listings.api_id" -> Collides(sess.new_jobs, js, "api_id")
         [] c = "companies.api_company_id" ->
              Collides(sess.new_companies, cs, "api_company_id")
         [] c = "companies.company_domain" ->
              Collides(sess.new_companies, cs, "company_domain")
         [] c = "technologies.technology_name" ->
              Collides(sess.new_techs, ts, "technology_name")
         [] c = "technologies.technology_slug" ->
              Collides(sess.new_techs, ts, "technology_slug")
         [] OTHER -> RepeatsTechnology(sess.new_jobs)}

\* the rows a flush inserts; ids come from the tables' sequences
FlushCompanies(cs, sess) ==
    cs \cup {[id |-> Cardinality(cs) + k,
              api_company_id |-> sess.new_companies[k].api_company_id,
              company_domain |-> sess.new_companies[k].company_domain]
             : k \in 1..Len(sess.new_companies)}

FlushTechnologies(ts, sess) ==
    ts \cup {[id |-> Cardinality(ts) + k,
              technology_name |-> sess.new_techs[k].technology_name,
              technology_slug |-> sess.new_techs[k].technology_slug]
             : k \in 1..Len(sess.new_techs)}

TechId(ts, ref) == IF ref.new THEN Cardinality(ts) + ref.k ELSE ref.k

InsertedJobs(js, ts, sess) ==
    {[id |-> Cardinality(js) + k,
      api_id |-> sess.new_jobs[k].api_id,
      company_obj_id |-> sess.new_jobs[k].company_obj_id,
      technologies |-> {TechId(ts, sess.new_jobs[k].technologies[m])
                        : m \in 1..Len(sess.new_jobs[k].technologies)},
      description |-> sess.new_jobs[k].description]
     : k \in 1..Len(sess.new_jobs)}

\* a commit that replaces the job rows by the new ones
CommitOverwrites(js, cs, ts, sess) ==
    IF Violations(js, cs, ts, sess) = {}
    THEN [ok |-> TRUE,
          jobs |-> InsertedJobs(js, ts, sess),
          companies |-> FlushCompanies(cs, sess),
          technologies |-> FlushTechnologies(ts, sess)]
    ELSE [ok |-> FALSE, jobs |-> js, companies |-> cs, technologies |-> ts]

\* db.commit(): flush and commit, or raise IntegrityError and change nothing
Commit(js, cs, ts, sess) ==
    IF Violations(js, cs, ts, sess) = {}
    THEN [ok |-> TRUE,
          jobs |-> js \cup InsertedJobs(js, ts, sess),
          companies |-> FlushCompanies(cs, sess),
          technologies |-> FlushTechnologies(ts, sess)]
    ELSE [ok |-> FALSE, jobs |-> js, companies |-> cs, technologies |-> ts]

\* an except branch that does not roll back: the pending objects stay
NoRollback(sess) == sess

\* db.rollback() in the except branch of the endpoint: the pending objects
\* are expunged
Rollback(sess) == EmptySession

\* the response of the endpoint when fetch_jobs or save_job_db raised
ErrorStatus == 500
\* the response of the endpoint when save_job_db returned
SuccessStatus == 200

\* the content of the three responses of the endpoint; the text of the
\* exception that follows the prefix of detail is left out
FetchErrorBody == [detail |-> "Error fetching jobs"]
SaveErrorBody == [detail |-> "Error saving jobs to DB"]
SuccessBody(fetched) == [status |-> "success", jobs_fetched |-> Len(fetched)]

\* number of committed rows; rows are only ever added by these operations
StoreSize == Cardinality(jobs) + Cardinality(companies) + Cardinality(technologies)

\* ---------------------------------------------------------------- requests
\* no response sent yet
NoStatus == 0

\* a request worker that is not handling a request
IdleRequest ==
    [pc |-> "idle",
     response |-> Response(200, TRUE, <<>>),  \* what the job source answered
     api_response |-> <<>>,        \* jobs, the list fetch_jobs returned
     existing_job_ids |-> {},      \* the snapshot save_job_db loads first
     i |-> 0,                      \* position of the loop over api_response
     skills |-> <<>>,              \* local variable skills
     companies_to_add |-> <<>>,    \* local variable companies_to_add
     jobs_to_add |-> <<>>,         \* local variable jobs_to_add
     sess |-> EmptySession,        \* the request's session
     \* history, for the properties
     size_start |-> 0,             \* StoreSize when the run started
     again |-> FALSE,              \* same list as the run before, back to back
     prev_status |-> NoStatus]     \* status of that run before

\* history of the run that ended in the step just taken: the request as it was
\* when the run ended (with the session that was committed or rolled back),
\* the response, and the store before that step.  r = 0: no run ended in the
\* step just taken
NoRun ==
    [r |-> 0, run |-> IdleRequest, status |-> NoStatus, body |-> [detail |-> ""],
     res |-> Summary(<<>>, <<>>), violations |-> {}, inserted |-> {},
     before |-> [jobs |-> {}, companies |-> {}, technologies |-> {}],
     quiet |-> FALSE]

\* raw jobs of the requests that are inside save_job_db
InFlight ==
    LET RECURSIVE Sum(_)
        Sum(S) == IF S = {} THEN 0
                  ELSE LET r == CHOOSE x \in S : TRUE
                       IN  Len(req[r].api_response) + Sum(S \ {r})
    IN  Sum(Requests)

\* no request is being handled and none has been answered
IngestIdle ==
    /\ req = [r \in Requests |-> IdleRequest]
    /\ last = NoRun

\* fetch_jobs is not being run
FetchIdle ==
    /\ user_input = <<>>
    /\ pass_payload = <<>>
    /\ fetch_pc = "off"

\* no listing endpoint has been called
NoListing ==
    [op |-> "none", technology |-> NULL, location |-> NULL, skills |-> <<>>,
     skip |-> 0, limit |-> 0, results |-> {}]

ListingIdle == listing = NoListing

\* no user endpoint has been called
NoOutcome ==
    [op |-> "none", token |-> "none", status |-> NoStatus, executed |-> FALSE]

\* a request worker that is not inside create_user
NoSignup == [pc |-> "idle", user_in |-> [username |-> NULL, email |-> NULL]]

\* no user is registered and nothing is logged
UserIdle ==
    /\ users = {}
    /\ user_activity_log = {}
    /\ user_resume = {}
    /\ match_score_log = {}
    /\ outcome = NoOutcome
    /\ signup = [r \in Requests |-> NoSignup]

Init ==
    /\ jobs = {}
    /\ companies = {}
    /\ technologies = {}
    /\ IngestIdle
    /\ FetchIdle
    /\ ListingIdle
    /\ UserIdle

\* POST /jobs/fetch_jobs is given to the first free worker
Dispatch(r) ==
    /\ req[r].pc = "idle"
    /\ \A q \in Requests : q < r => req[q].pc # "idle"
    /\ \A q \in Requests : ~req[q].again

\* fetch_jobs returned the list under "data"; save_job_db starts and loads
\* the external ids that are stored
Begin(r, response, again) ==
    /\ Dispatch(r)
    /\ ~FetchRaises(response)
    /\ InFlight + Len(response.data) <= MaxInFlight
    /\ req' = [req EXCEPT ![r] =
                 [IdleRequest EXCEPT
                    !.pc = "loop",
                    !.response = response,
                    !.api_response = response.data,
                    !.existing_job_ids = ExistingJobIds(jobs),
                    !.i = 1,
                    !.size_start = StoreSize,
                    !.again = again,
                    !.prev_status = IF again THEN last.status ELSE NoStatus]]
    /\ last' = NoRun
    /\ UNCHANGED <<jobs, companies, technologies>>
    /\ UNCHANGED beside_ingest

\* a request arrives and the job source answers with a list of raw jobs
Start(r, response) == last.r = 0 /\ Begin(r, response, FALSE)

\* a request arrives and fetch_jobs raises: the first except branch of the
\* endpoint answers 500 and save_job_db is not called
FetchFails(r, response) ==
    /\ last.r = 0
    /\ Dispatch(r)
    /\ FetchRaises(response)
    /\ last' = [NoRun EXCEPT
                  !.r = r,
                  !.run = [IdleRequest EXCEPT !.response = response],
                  !.status = ErrorStatus,
                  !.body = FetchErrorBody,
                  !.before = [jobs |-> jobs, companies |-> companies,
                              technologies |-> technologies]]
    /\ UNCHANGED <<jobs, companies, technologies, req>>
    /\ UNCHANGED beside_ingest

\* the history of the run that has just ended is dropped
Deliver ==
    /\ last.r # 0
    /\ last' = NoRun
    /\ UNCHANGED <<jobs, companies, technologies, req>>
    /\ UNCHANGED beside_ingest

\* the caller of the run that has just ended sends the same list again; no
\* other request has committed during that run or is being handled
Retry ==
    /\ last.r # 0
    /\ last.quiet
    /\ \A q \in Requests : req[q].pc = "idle"
    /\ Begin(last.r, last.run.response, TRUE)

\* the job at position i is in existing_job_ids: nothing is done for it
SkipJob(r) ==
    /\ req[r].pc = "loop"
    /\ req[r].i <= Len(req[r].api_response)
    /\ ~IsNewJob(Str(req[r].api_response[req[r].i].id), req[r].existing_job_ids)
    /\ req' = [req EXCEPT ![r].i = @ + 1]
    /\ last' = NoRun
    /\ UNCHANGED <<jobs, companies, technologies>>
    /\ UNCHANGED beside_ingest

\* the job at position i is new and is staged
StageNewJob(r) ==
    /\ req[r].pc = "loop"
    /\ req[r].i <= Len(req[r].api_response)
    /\ IsNewJob(Str(req[r].api_response[req[r].i].id), req[r].existing_job_ids)
    /\ LET st == StageJob(technologies, companies, req[r],
                          req[r].api_response[req[r].i], req[r].i)
       IN  /\ ~st.raised
           /\ req' = [req EXCEPT ![r].i = @ + 1,
                                 ![r].skills = st.skills,
                                 ![r].sess = st.sess,
                                 ![r].jobs_to_add = st.jobs_to_add]
    /\ last' = NoRun
    /\ UNCHANGED <<jobs, companies, technologies>>
    /\ UNCHANGED beside_ingest

\* the end of a run: the request worker is free again, the history is kept
Finish(r, run, status, body, res, c) ==
    /\ jobs' = c.jobs
    /\ companies' = c.companies
    /\ technologies' = c.technologies
    /\ req' = [req EXCEPT ![r] = IdleRequest]
    /\ last' = [r |-> r, run |-> run, status |-> status, body |-> body,
                res |-> res,
                violations |-> Violations(jobs, companies, technologies, run.sess),
                inserted |-> c.jobs \ jobs,
                before |-> [jobs |-> jobs, companies |-> companies,
                            technologies |-> technologies],
                quiet |-> (StoreSize = run.size_start)]
    /\ UNCHANGED beside_ingest

\* the end of a run that raised: the except branch of the endpoint rolls
\* back and answers 500; get_db then commits what the session still holds
Failed(r, run) ==
    Finish(r, run, ErrorStatus, SaveErrorBody, Summary(<<>>, <<>>),
           Commit(jobs, companies, technologies, Rollback(run.sess)))

\* the job at position i is new and JobListingCreate rejects it: the
\* exception leaves save_job_db
StageRaises(r) ==
    /\ req[r].pc = "loop"
    /\ req[r].i <= Len(req[r].api_response)
    /\ IsNewJob(Str(req[r].api_response[req[r].i].id), req[r].existing_job_ids)
    /\ LET st == StageJob(technologies, companies, req[r],
                          req[r].api_response[req[r].i], req[r].i)
       IN  /\ st.raised
           /\ Failed(r, [req[r] EXCEPT !.skills = st.skills, !.sess = st.sess])

\* the request at db.commit(): db.add_all(jobs_to_add) has added the jobs
AtCommit(r) == [req[r] EXCEPT !.sess.new_jobs = req[r].jobs_to_add]

\* after the loop: add_all, commit, and the summary is returned
CommitSucceeds(r) ==
    /\ req[r].pc = "loop"
    /\ req[r].i > Len(req[r].api_response)
    /\ LET c == Commit(jobs, companies, technologies, AtCommit(r).sess)
       IN  /\ c.ok
           /\ Finish(r, AtCommit(r), SuccessStatus,
                     SuccessBody(req[r].api_response),
                     Summary(req[r].companies_to_add, req[r].jobs_to_add), c)

\* after the loop: the commit raises IntegrityError
CommitFails(r) ==
    /\ req[r].pc = "loop"
    /\ req[r].i > Len(req[r].api_response)
    /\ ~Commit(jobs, companies, technologies, AtCommit(r).sess).ok
    /\ Failed(r, AtCommit(r))

Next ==
    \/ \E r \in Requests :
          req[r].pc = "idle" /\ \E response \in Responses : Start(r, response)
    \/ \E r \in Requests :
          req[r].pc = "idle" /\ \E response \in Responses : FetchFails(r, response)
    \/ Retry
    \/ Deliver
    \/ \E r \in Requests : SkipJob(r)
    \/ \E r \in Requests : StageNewJob(r)
    \/ \E r \in Requests : StageRaises(r)
    \/ \E r \in Requests : CommitSucceeds(r)
    \/ \E r \in Requests : CommitFails(r)

Spec == Init /\ [][Next]_vars

\* ----------------------------------------------- fetch_jobs: the request
\* Python values of the criteria and of the payload.  strs = FALSE: the list
\* holds, besides the strings in items, an item that is not a str
PyNone == [t |-> "none"]
PyBool(b) == [t |-> "bool", b |-> b]
PyInt(n) == [t |-> "int", n |-> n]
PyStr(str) == [t |-> "str", s |-> str]
PyList(items, strs) == [t |-> "list", items |-> items, strs |-> strs]

\* bool(v)
Truthy(v) ==
    CASE v.t = "none" -> FALSE
      [] v.t = "bool" -> v.b
      [] v.t = "int"  -> v.n # 0
      [] v.t = "str"  -> v.s # ""
      [] OTHER        -> v.items # <<>> \/ ~v.strs

\* a mapping with the band [1, 3) closed at 3
map_experience_closed(years_of_experience) ==
    IF years_of_experience.t = "none" THEN <<>>
    ELSE LET y == years_of_experience.n
         IN  CASE y < 1 -> <<"junior">>
               [] 1 <= y /\ y <= 3 -> <<"junior", "mid_level">>
               [] 3 < y /\ y < 7 -> <<"mid_level", "senior">>
               [] 7 <= y /\ y < 10 -> <<"senior", "staff">>
               [] OTHER -> <<"senior", "staff", "c_level">>

\* map_experience_to_seniority(years_of_experience)
map_experience_to_seniority(years_of_experience) ==
    IF years_of_experience.t = "none" THEN <<>>
    ELSE LET y == years_of_experience.n
         IN  CASE y < 1 -> <<"junior">>
               [] 1 <= y /\ y < 3 -> <<"junior", "mid_level">>
               [] 3 <= y /\ y < 7 -> <<"mid_level", "senior">>
               [] 7 <= y /\ y < 10 -> <<"senior", "staff">>
               [] OTHER -> <<"senior", "staff", "c_level">>

\* job_db(): the rows of db.query(JobListing.api_id).all(); a row is no str
job_db(js) == PyList(<<>>, js = {})

\* user_input.get(key, default)
Get(d, key, default) == IF key \in DOMAIN d THEN d[key] ELSE default

\* the loop over user_input.items(): a str and a list of str are lowercased,
\* every other value is kept
LowerValue(value) ==
    CASE value.t = "str" -> PyStr(Lower(value.s))
      [] value.t = "list" /\ value.strs ->
           PyList([i \in 1..Len(value.items) |-> Lower(value.items[i])], TRUE)
      [] OTHER -> value

LowerInput(d) == [k \in DOMAIN d |-> LowerValue(d[k])]

\* the keys of pass_payload
PayloadKeys ==
    {"order_by", "offset", "limit", "job_title_pattern_or",
     "job_technology_slug_or", "job_seniority_or", "job_location_pattern_or",
     "job_country_code_or", "remote", "posted_at_max_age_days", "job_id_not",
     "include_total_results", "blur_company_data"}

\* the ordering asked for: by posting date, then by discovery time, both
\* descending (a list of two dicts)
OrderBy ==
    PyList(<<[desc |-> TRUE, field |-> "date_posted"],
             [desc |-> TRUE, field |-> "discovered_at"]>>, FALSE)

\* pass_payload = {...}
Payload(d, js) ==
    [k \in PayloadKeys |->
       CASE k = "order_by" -> OrderBy
         [] k = "offset" -> PyInt(0)
         [] k = "limit" -> PyInt(1)
         [] k = "job_title_pattern_or" -> Get(d, "job_titles", PyList(<<>>, TRUE))
         [] k = "job_technology_slug_or" -> Get(d, "skills", PyList(<<>>, TRUE))
         [] k = "job_seniority_or" ->
              PyList(map_experience_to_seniority(Get(d, "experience", PyNone)), TRUE)
         [] k = "job_location_pattern_or" -> Get(d, "locations", PyList(<<>>, TRUE))
         [] k = "job_country_code_or" -> Get(d, "countries", PyList(<<"IN">>, TRUE))
         [] k = "remote" -> Get(d, "remote", PyNone)
         [] k = "posted_at_max_age_days" -> PyInt(30)
         [] k = "job_id_not" -> job_db(js)
         [] OTHER -> PyBool(FALSE)]

\* a build that sends the payload as it is
KeepAll(payload) == payload

\* pass_payload = {k: v for k, v in pass_payload.items() if v}
Clean(payload) ==
    [k \in {x \in DOMAIN payload : Truthy(payload[x])} |-> payload[k]]

\* the criteria fetch_jobs may be called with: a key may be absent
Absent == [t |-> "absent"]
Experiences == {Absent, PyNone} \cup {PyInt(n) : n \in (0 - 1)..MaxExperience}
Criteria ==
    [job_titles : {Absent, PyList(<<>>, TRUE), PyList(<<"Engineer">>, TRUE),
                   PyList(<<"Engineer">>, FALSE), PyStr("Engineer")},
     skills : {PyList(<<>>, TRUE), PyList(<<"Go Lang">>, TRUE)},
     experience : Experiences,
     locations : {PyList(<<>>, TRUE), PyList(<<"Pune">>, TRUE)},
     countries : {Absent, PyList(<<>>, TRUE), PyList(<<"IN">>, TRUE)},
     remote : {PyNone, PyBool(FALSE), PyBool(TRUE)}]

UserInput(c) == [k \in {x \in DOMAIN c : c[x].t # "absent"} |-> c[k]]

\* fetch_jobs is called with a criteria mapping, over an empty store or one
\* that holds a job
InitFetch ==
    /\ jobs \in {{}, {[id |-> 1, api_id |-> "A1", company_obj_id |-> NoId,
                       technologies |-> {}, description |-> RawDescription]}}
    /\ companies = {}
    /\ technologies = {}
    /\ IngestIdle
    /\ ListingIdle
    /\ UserIdle
    /\ user_input \in {UserInput(c) : c \in Criteria}
    /\ pass_payload = <<>>
    /\ fetch_pc = "lower"

\* the loop that lowercases the criteria
LowerCriteria ==
    /\ fetch_pc = "lower"
    /\ user_input' = LowerInput(user_input)
    /\ fetch_pc' = "build"
    /\ UNCHANGED <<beside_fetch, pass_payload>>

\* the payload is put together
BuildPayload ==
    /\ fetch_pc = "build"
    /\ pass_payload' = Payload(user_input, jobs)
    /\ fetch_pc' = "clean"
    /\ UNCHANGED <<beside_fetch, user_input>>

\* the empty keys are cleaned out; the payload is ready to be posted
CleanPayload ==
    /\ fetch_pc = "clean"
    /\ pass_payload' = Clean(pass_payload)
    /\ fetch_pc' = "post"
    /\ UNCHANGED <<beside_fetch, user_input>>

NextFetch == LowerCriteria \/ BuildPayload \/ CleanPayload

SpecFetch == InitFetch /\ [][NextFetch]_vars

\* ------------------------------------------------------ listing endpoints
\* a Text column: NULL, or a text given as the sequence of its characters
Chars(text) == [null |-> FALSE, text |-> text]
NullText == [null |-> TRUE, text |-> <<>>]

\* lower() of a text, in Python and func.lower in SQL
LowerText(text) == [i \in 1..Len(text) |-> Lower(text[i])]

\* text LIKE pattern: % stands for any characters, _ for any one character
RECURSIVE Like(_, _)
Like(text, pattern) ==
    IF pattern = <<>> THEN text = <<>>
    ELSE IF Head(pattern) = "%"
         THEN Like(text, Tail(pattern))
              \/ (text # <<>> /\ Like(Tail(text), pattern))
         ELSE /\ text # <<>>
              /\ (Head(pattern) = "_" \/ Head(pattern) = Head(text))
              /\ Like(Tail(text), Tail(pattern))

\* func.lower(JobListing.description).like(f"%{skill.lower()}%")
DescriptionLike(job, skill) ==
    /\ ~job.description.null
    /\ Like(LowerText(job.description.text),
            <<"%">> \o LowerText(skill) \o <<"%">>)

\* if technology: / if location: on an Optional[str]
StrTruthy(x) == x # NULL /\ x # ""

\* a filter that compares the technology name with ilike
JoinFilterILike(js, ts, technology, location) ==
    {j \in js :
       /\ StrTruthy(technology) =>
             \E t \in ts : t.id \in j.technologies
                            /\ ILike(t.technology_name, technology)
       /\ StrTruthy(location) => j.location = location}

\* query.join(JobListing.technologies).filter(technology_name == technology)
\* and query.filter(JobListing.location == location), each if supplied
JoinFilter(js, ts, technology, location) ==
    {j \in js :
       /\ StrTruthy(technology) =>
             \E t \in ts : t.id \in j.technologies
                            /\ t.technology_name = technology
       /\ StrTruthy(location) => j.location = location}

\* the rows that pass filter(or_(*filters)), or all rows without skills
SkillFilter(js, skills) ==
    IF skills # <<>>
    THEN {j \in js : \E i \in 1..Len(skills) : DescriptionLike(j, skills[i])}
    ELSE js

Min(a, b) == IF a <= b THEN a ELSE b
Max(a, b) == IF a >= b THEN a ELSE b

\* .offset(skip).limit(limit).all() without ORDER BY: the rows come in an
\* order the database chooses, so any limit rows after any skip rows
Windows(rows, skip, limit) ==
    {w \in SUBSET rows :
       Cardinality(w) = Min(limit, Max(0, Cardinality(rows) - skip))}

\* JobListingResponse(**job_dict) with job_dict['technologies'] = tech_names
JobListingResponse(job, ts) ==
    [id |-> job.id, location |-> job.location, description |-> job.description,
     technologies |-> {t.technology_name : t \in {u \in ts : u.id \in job.technologies}}]

\* the stored technologies and the job rows a store may hold
QueryTechnologies ==
    {[id |-> 1, technology_name |-> "python", technology_slug |-> "python"],
     [id |-> 2, technology_name |-> "go lang", technology_slug |-> "go-lang"]}

QueryJobs ==
    {[id |-> 1, api_id |-> "A1", company_obj_id |-> NoId, location |-> "pune",
      technologies |-> {1}, description |-> Chars(<<"a", "b">>)],
     [id |-> 2, api_id |-> "A2", company_obj_id |-> NoId, location |-> "Pune",
      technologies |-> {1, 2}, description |-> Chars(<<"A", "_">>)],
     [id |-> 3, api_id |-> "A3", company_obj_id |-> NoId, location |-> "pune",
      technologies |-> {2}, description |-> Chars(<<"b">>)],
     [id |-> 4, api_id |-> "None", company_obj_id |-> NoId, location |-> NULL,
      technologies |-> {}, description |-> NullText]}

\* the skill keywords and skill lists a caller may send
Keywords == {<<"a", "_">>, <<"A">>, <<"b">>}
SkillLists ==
    {<<>>} \cup {<<k>> : k \in Keywords}
           \cup {<<k1, k2>> : k1 \in Keywords, k2 \in Keywords}

InitQuery ==
    /\ jobs \in SUBSET QueryJobs
    /\ companies = {}
    /\ technologies = QueryTechnologies
    /\ IngestIdle
    /\ FetchIdle
    /\ ListingIdle
    /\ UserIdle

\* GET /jobs/?technology=&location=
FilterJobs(technology, location) ==
    /\ listing' = [NoListing EXCEPT
                     !.op = "get_jobs",
                     !.technology = technology,
                     !.location = location,
                     !.results = {JobListingResponse(j, technologies) :
                                    j \in JoinFilter(jobs, technologies,
                                                     technology, location)}]
    /\ UNCHANGED <<ingest_vars, fetch_vars, user_vars>>

\* POST /jobs/relevant_jobs of an authenticated caller
relevant_jobs(skills, skip, limit) ==
    /\ \E db_jobs \in Windows(SkillFilter(jobs, skills), skip, limit) :
          listing' = [NoListing EXCEPT
                        !.op = "relevant_jobs",
                        !.skills = skills,
                        !.skip = skip,
                        !.limit = limit,
                        !.results = {JobListingResponse(j, technologies) :
                                       j \in db_jobs}]
    /\ UNCHANGED <<ingest_vars, fetch_vars, user_vars>>

NextQuery ==
    \/ \E technology \in {NULL, "", "python", "Python"},
          location \in {NULL, "", "pune", "Pune"} :
          FilterJobs(technology, location)
    \/ \E skills \in SkillLists, skip \in 0..MaxSkip, limit \in 0..MaxLimit :
          relevant_jobs(skills, skip, limit)

SpecQuery == InitQuery /\ [][NextQuery]_vars

\* --------------------------------------------------------- user endpoints
\* the statuses of the responses
Unauthorized == 401
Forbidden == 403
NotFound == 404

\* the identity tokens a request may carry: no Authorization header, a
\* Bearer header without token, a token Firebase does not verify, and one
\* it verifies
Tokens == {"missing", "empty", "invalid", "valid"}

\* security_scheme = HTTPBearer(), with auto_error: a request without
\* credentials is answered by the scheme itself, before get_current_user
\* runs; with 403 in older releases of the framework, with 401 in newer ones
security_scheme(token) ==
    IF token \in {"missing", "empty"} THEN {Forbidden, Unauthorized} ELSE {}

\* get_current_user: every path but the verified token raises 401
get_current_user(token) ==
    IF token = "valid" THEN {} ELSE {Unauthorized}

\* the statuses with which a guarded endpoint is refused for a token; none:
\* the endpoint body runs
Refusals(token) ==
    IF security_scheme(token) # {} THEN security_scheme(token)
    ELSE get_current_user(token)

\* the ids of a set of rows
Ids(rows) == {row.id : row \in rows}

\* the foreign keys of a log record: users.id, and job_listings.id if given
ForeignKeysHold(user_id, job_id) ==
    /\ user_id \in Ids(users)
    /\ job_id = NoId \/ job_id \in Ids(jobs)

\* records in the three log tables
Records ==
    Cardinality(user_activity_log) + Cardinality(user_resume)
    + Cardinality(match_score_log)

\* an insert that replaces the latest record of the table
AddOverwriting(table, record) ==
    {row \in table : row.id # Cardinality(table)}
    \cup {[record EXCEPT !.id = Cardinality(table) + 1]}

\* db.add(record); db.commit(); db.refresh(record): one row more, with the
\* next id of the table
Add(table, record) ==
    table \cup {[record EXCEPT !.id = Cardinality(table) + 1]}

\* UserActivityLog(user_id=..., job_id=..., action_type=..., ...)
UserActivityLog(user_id, job_id, action_type) ==
    [id |-> NoId, user_id |-> user_id, job_id |-> job_id,
     action_type |-> action_type]

\* the response of a user endpoint
Outcome(op, token, status, executed) ==
    [op |-> op, token |-> token, status |-> status, executed |-> executed]

\* the store of the user endpoints: the store after the ingest of the raw
\* job A1 (its job, Company and Technology rows), no user registered
InitUser ==
    /\ jobs = {[id |-> 1, api_id |-> "A1", company_obj_id |-> NoId,
                technologies |-> {1}, description |-> "cleaned"]}
    /\ companies = {[id |-> 1, api_company_id |-> "C1", company_domain |-> "d1"]}
    /\ technologies = {[id |-> 1, technology_name |-> "Go Lang",
                        technology_slug |-> "go-lang"]}
    /\ IngestIdle
    /\ FetchIdle
    /\ ListingIdle
    /\ UserIdle

\* what the user endpoints leave alone
beside_user == <<ingest_vars, fetch_vars, listing, signup>>

\* the responses of create_user
Created == 201
BadRequest == 400

\* UserIn: the user name and the email of a registration
UserIn(username, email) == [username |-> username, email |-> email]

\* db.query(User).filter(User.email_id == user_in.email).first()
EmailRegistered(email) == \E u \in users : u.email_id = email

\* new_user = User(user_name=user_in.username.lower(), email_id=...), as the
\* row the commit inserts
NewUser(user_in) ==
    [id |-> CHOOSE n \in 1..(Cardinality(users) + 1) : n \notin Ids(users),
     user_name |-> Lower(user_in.username),
     email_id |-> user_in.email,
     skills |-> {}]

\* POST /users/, no other request running between its existence check and
\* its commit
create_user(user_in) ==
    /\ IF EmailRegistered(user_in.email)
       THEN /\ users' = users
            /\ outcome' = Outcome("create_user", "none", BadRequest, TRUE)
       ELSE /\ Cardinality(users) < MaxUsers
            /\ users' = users \cup {NewUser(user_in)}
            /\ outcome' = Outcome("create_user", "none", Created, TRUE)
    /\ UNCHANGED <<beside_user, user_activity_log, user_resume, match_score_log>>

\* an endpoint that adds a UserActivityLog and is not guarded: the commit
\* raises when a foreign key does not hold, and nothing is added
AddActivity(op, user_id, job_id, action_type) ==
    /\ Records < MaxRecords
    /\ IF ForeignKeysHold(user_id, job_id)
       THEN /\ user_activity_log' =
                  Add(user_activity_log,
                      UserActivityLog(user_id, job_id, action_type))
            /\ outcome' = Outcome(op, "none", SuccessStatus, TRUE)
       ELSE /\ user_activity_log' = user_activity_log
            /\ outcome' = Outcome(op, "none", ErrorStatus, TRUE)
    /\ UNCHANGED <<beside_user, users, user_resume, match_score_log>>

\* POST /activity/log
log_activity(user_id, job_id, action_type) ==
    AddActivity("log_activity", user_id, job_id, action_type)

\* POST /jobs/{id}/save
save_job(id, user_id) == AddActivity("save_job", user_id, id, "job_saved")

\* POST /resumes/apply
apply_job(user_id, job_id) ==
    AddActivity("apply_job", user_id, job_id, "job_applied")

\* POST /jobs/{id}/analyze
analyze_job(id, user_id) ==
    /\ Records < MaxRecords
    /\ IF ForeignKeysHold(user_id, id)
       THEN /\ match_score_log' =
                  Add(match_score_log,
                      [id |-> NoId, user_id |-> user_id, job_id |-> id,
                       score |-> 78])
            /\ outcome' = Outcome("analyze_job", "none", SuccessStatus, TRUE)
       ELSE /\ match_score_log' = match_score_log
            /\ outcome' = Outcome("analyze_job", "none", ErrorStatus, TRUE)
    /\ UNCHANGED <<beside_user, users, user_activity_log, user_resume>>

\* POST /resumes/generate
generate_resume(user_id, job_id) ==
    /\ Records < MaxRecords
    /\ IF ForeignKeysHold(user_id, job_id)
       THEN /\ user_resume' =
                  Add(user_resume,
                      [id |-> NoId, user_id |-> user_id, job_id |-> job_id,
                       source |-> "from_job"])
            /\ outcome' = Outcome("generate_resume", "none", SuccessStatus, TRUE)
       ELSE /\ user_resume' = user_resume
            /\ outcome' = Outcome("generate_resume", "none", ErrorStatus, TRUE)
    /\ UNCHANGED <<beside_user, users, user_activity_log, match_score_log>>

\* a guarded endpoint is called with a token that is refused: the dependency
\* raises, and the endpoint body does not run
Refused(op, token) ==
    /\ \E status \in Refusals(token) :
          outcome' = Outcome(op, token, status, FALSE)
    /\ UNCHANGED <<beside_user, users, user_activity_log, user_resume,
                   match_score_log>>

\* POST /users/{id}/feedback
log_feedback(id, token) ==
    /\ Refusals(token) = {}
    /\ Records < MaxRecords
    /\ IF ForeignKeysHold(id, NoId)
       THEN /\ user_activity_log' =
                  Add(user_activity_log, UserActivityLog(id, NoId, "feedback"))
            /\ outcome' = Outcome("log_feedback", token, SuccessStatus, TRUE)
       ELSE /\ user_activity_log' = user_activity_log
            /\ outcome' = Outcome("log_feedback", token, ErrorStatus, TRUE)
    /\ UNCHANGED <<beside_user, users, user_resume, match_score_log>>

\* str.strip() on the texts the model uses
Strip(s) ==
    CASE s = " Go Lang" -> "Go Lang"
      [] s = "python " -> "python"
      [] s = " " -> ""
      [] OTHER -> s

\* a comma-separated text is given as the list of the texts between its
\* commas, which is what split(',') returns
\* [skill.strip().lower() for skill in ....split(',') if skill.strip()]
RECURSIVE NormalizedTokens(_)
NormalizedTokens(pieces) ==
    IF pieces = <<>> THEN <<>>
    ELSE IF Strip(Head(pieces)) = "" THEN NormalizedTokens(Tail(pieces))
    ELSE <<Lower(Strip(Head(pieces)))>> \o NormalizedTokens(Tail(pieces))

\* the elements of a list
Range(seq) == {seq[k] : k \in 1..Len(seq)}

\* UserUpdate with the fields username and skills; NULL and <<>>: not set
UserUpdate(username, skills) == [username |-> username, skills |-> skills]

\* 'skills' in update_dict and update_dict['skills']: set, and not the
\* empty text
SkillsGiven(update_data) ==
    update_data.skills # <<>> /\ update_data.skills # <<"">>

\* handle_user_skills(db, user, skill_names): the Technology objects that
\* become user.skills, and the session with the newly added ones; the query
\* is by exact name and sees the committed rows only
RECURSIVE NewSkills(_, _, _)
NewSkills(existing_skill_names, sess, skill_names) ==
    IF skill_names = <<>> THEN [tech_objects |-> <<>>, sess |-> sess]
    ELSE
      LET name == Head(skill_names)
          sess1 == IF name \in existing_skill_names THEN sess
                   ELSE [sess EXCEPT !.new_techs =
                           Append(@, [technology_name |-> name,
                                      technology_slug |-> NULL])]
          rest == NewSkills(existing_skill_names, sess1, Tail(skill_names))
      IN  [tech_objects |->
             (IF name \in existing_skill_names THEN <<>>
              ELSE <<NewRef(Len(sess1.new_techs))>>) \o rest.tech_objects,
           sess |-> rest.sess]

handle_user_skills(techs, skill_names) ==
    LET found == {t \in techs : t.technology_name \in Range(skill_names)}
        added == NewSkills({t.technology_name : t \in found}, EmptySession,
                           skill_names)
    IN  [tech_objects |-> {DbRef(t.id) : t \in found} \cup Range(added.tech_objects),
         sess |-> added.sess]

\* what update_user leaves alone
beside_update == <<jobs, companies, req, last, fetch_vars, listing, signup>>

\* PUT /users/{id}, with a new user name, new skills, or both: the user
\* is changed in the session, handle_user_skills runs, and db.commit()
\* stores all of it or raises
update_user(id, token, update_data) ==
    /\ Refusals(token) = {}
    /\ IF id \notin Ids(users)
       THEN /\ users' = users
            /\ technologies' = technologies
            /\ outcome' = Outcome("update_user", token, NotFound, TRUE)
       ELSE
         LET h == IF SkillsGiven(update_data)
                  THEN handle_user_skills(technologies,
                                          NormalizedTokens(update_data.skills))
                  ELSE [tech_objects |-> {}, sess |-> EmptySession]
             c == Commit(jobs, companies, technologies, h.sess)
             Updated(u) ==
                [u EXCEPT
                   !.user_name = IF update_data.username = NULL THEN @
                                 ELSE update_data.username,
                   !.skills = IF SkillsGiven(update_data)
                              THEN {TechId(technologies, ref) : ref \in h.tech_objects}
                              ELSE @]
         IN  IF c.ok
             THEN /\ users' = {IF u.id = id THEN Updated(u) ELSE u : u \in users}
                  /\ technologies' = c.technologies
                  /\ outcome' = Outcome("update_user", token, SuccessStatus, TRUE)
             ELSE /\ users' = users
                  /\ technologies' = technologies
                  /\ outcome' = Outcome("update_user", token, ErrorStatus, TRUE)
    /\ UNCHANGED <<beside_update, user_activity_log, user_resume, match_score_log>>

\* a log record refers to the user
Referenced(id) ==
    \E row \in user_activity_log \cup user_resume \cup match_score_log :
       row.user_id = id

\* DELETE /users/{id}: the commit raises while a log record refers to the user
delete_user(id, token) ==
    /\ Refusals(token) = {}
    /\ IF id \notin Ids(users)
       THEN /\ users' = users
            /\ outcome' = Outcome("delete_user", token, NotFound, TRUE)
       ELSE IF Referenced(id)
       THEN /\ users' = users
            /\ outcome' = Outcome("delete_user", token, ErrorStatus, TRUE)
       ELSE /\ users' = {u \in users : u.id # id}
            /\ outcome' = Outcome("delete_user", token, SuccessStatus, TRUE)
    /\ UNCHANGED <<beside_user, user_activity_log, user_resume, match_score_log>>

\* the guarded endpoints that only read: GET /users/{id},
\* POST /jobs/relevant_jobs, GET /activity/user/{id}, GET /resumes/user/{id}
ReadOps == {"get_user", "relevant_jobs", "get_user_activities", "get_user_resumes"}

Read(op, id, token) ==
    /\ Refusals(token) = {}
    /\ outcome' = Outcome(op, token,
                          IF op = "get_user" /\ id \notin Ids(users)
                          THEN NotFound ELSE SuccessStatus, TRUE)
    /\ UNCHANGED <<beside_user, users, user_activity_log, user_resume,
                   match_score_log>>

\* the endpoints that log a record
LoggingOps ==
    {"save_job", "apply_job", "analyze_job", "generate_resume", "log_activity",
     "log_feedback"}

\* the endpoints guarded by get_current_user
GuardedOps == ReadOps \cup {"update_user", "delete_user", "log_feedback"}

\* the user ids given to the logging endpoints: the first user, and an id
\* no user has
GivenUserIds == {1, MaxUsers + 1}

\* the ids given to the guarded endpoints
GivenIds == 1..(MaxUsers + 1)

NextUser ==
    \/ \E user_in \in {UserIn("Ann", "ann@x")} : create_user(user_in)
    \/ \E user_id \in GivenUserIds, job_id \in {NoId, 1, 2},
          action_type \in {"job_viewed"} :
          log_activity(user_id, job_id, action_type)
    \/ \E id \in {1, 2}, user_id \in GivenUserIds : save_job(id, user_id)
    \/ \E user_id \in GivenUserIds, job_id \in {1, 2} :
          apply_job(user_id, job_id)
    \/ \E id \in {1, 2}, user_id \in GivenUserIds : analyze_job(id, user_id)
    \/ \E user_id \in GivenUserIds, job_id \in {NoId, 1, 2} :
          generate_resume(user_id, job_id)
    \/ \E op \in GuardedOps, token \in Tokens : Refused(op, token)
    \/ \E id \in GivenUserIds, token \in Tokens : log_feedback(id, token)
    \/ \E id \in GivenIds, token \in Tokens, username \in {"ann", "bob"} :
          update_user(id, token, UserUpdate(username, <<>>))
    \/ \E id \in GivenIds, token \in Tokens : delete_user(id, token)
    \/ \E op \in ReadOps, id \in GivenIds, token \in Tokens :
          Read(op, id, token)

SpecUser == InitUser /\ [][NextUser]_vars

\* ---------------------------------------------- create_user, interleaved
\* a users table whose email_id is not declared unique
EmailNotUnique(rows, email) == FALSE

\* email_id = Column(String, unique=True): the insert of a row with this
\* email violates the constraint
EmailCollides(rows, email) == \E u \in rows : u.email_id = email

\* the emails of the users stored and of the requests before their commit
EmailsInUse ==
    {u.email_id : u \in users}
    \cup {signup[r].user_in.email : r \in {q \in Requests : signup[q].pc = "commit"}}

\* what create_user leaves alone
beside_signup ==
    <<ingest_vars, fetch_vars, listing, user_activity_log, user_resume,
      match_score_log>>

\* create_user up to its existence check: 400 when the email is registered,
\* else the request goes on to build the user
create_user_check(r, user_in) ==
    /\ signup[r].pc = "idle"
    /\ Cardinality(EmailsInUse \cup {user_in.email}) <= MaxUsers
    /\ IF EmailRegistered(user_in.email)
       THEN /\ outcome' = Outcome("create_user", "none", BadRequest, TRUE)
            /\ signup' = signup
       ELSE /\ outcome' = NoOutcome
            /\ signup' = [signup EXCEPT ![r] = [pc |-> "commit", user_in |-> user_in]]
    /\ UNCHANGED <<beside_signup, users>>

\* db.add(new_user); db.commit(): the row is inserted, or the commit raises
\* IntegrityError, which create_user does not catch
create_user_commit(r) ==
    /\ signup[r].pc = "commit"
    /\ IF EmailCollides(users, signup[r].user_in.email)
       THEN /\ users' = users
            /\ outcome' = Outcome("create_user", "none", ErrorStatus, TRUE)
       ELSE /\ users' = users \cup {NewUser(signup[r].user_in)}
            /\ outcome' = Outcome("create_user", "none", Created, TRUE)
    /\ signup' = [signup EXCEPT ![r] = NoSignup]
    /\ UNCHANGED beside_signup

\* the registrations given
SignupInputs ==
    {UserIn(username, email) :
       username \in {"Ann", "bob"}, email \in {"ann@x", "bob@x"}}

\* the store of create_user: no user registered, or one
InitSignup ==
    /\ jobs = {}
    /\ companies = {}
    /\ technologies = {}
    /\ IngestIdle
    /\ FetchIdle
    /\ ListingIdle
    /\ user_activity_log = {}
    /\ user_resume = {}
    /\ match_score_log = {}
    /\ outcome = NoOutcome
    /\ signup = [r \in Requests |-> NoSignup]
    /\ users = {}

NextSignup ==
    \/ \E r \in Requests, user_in \in SignupInputs : create_user_check(r, user_in)
    \/ \E r \in Requests : create_user_commit(r)
    \/ \E id \in GivenIds, token \in Tokens, username \in {"ann", "bob"} :
          update_user(id, token, UserUpdate(username, <<>>))
    \/ \E id \in GivenIds, token \in Tokens : delete_user(id, token)

SpecSignup == InitSignup /\ [][NextSignup]_vars

\* the skills texts given to update_user, as the texts between the commas:
\* "Python", " Go Lang", "Python,python ", "Python, , Go Lang" and ""
SkillTexts ==
    {<<"Python">>, <<" Go Lang">>, <<"Python", "python ">>,
     <<"Python", " ", " Go Lang">>, <<"">>}

\* the updates given: a user name, a skills text, or both
SkillUpdates ==
    {UserUpdate(username, skills) :
       username \in {NULL, "bob"}, skills \in SkillTexts \cup {<<>>}}

\* users are registered, updated with skills, and deleted
NextSkills ==
    \/ \E user_in \in {UserIn("Ann", "ann@x")} : create_user(user_in)
    \/ \E id \in GivenIds, token \in Tokens, update_data \in SkillUpdates :
          update_user(id, token, update_data)
    \/ \E id \in GivenIds, token \in Tokens : delete_user(id, token)

SpecSkills == InitUser /\ [][NextSkills]_vars

\* ------------------------------------------------------------- properties
\* the external ids stored in a set of job rows
ApiIds(js) == {j.api_id : j \in js}

\* the run that ended in the step just taken
RunEnded == last.r # 0 /\ last.run.pc = "loop"
RunSucceeded == RunEnded /\ last.status = SuccessStatus
RunFailed == RunEnded /\ last.status = ErrorStatus

\* the run that has ended left the loop and reached db.commit()
ReachedCommit == last.run.i > Len(last.run.api_response)

\* the current store is the store before the last step of the run
StoreAsBefore ==
    /\ jobs = last.before.jobs
    /\ companies = last.before.companies
    /\ technologies = last.before.technologies

\* C1: in every reachable state, after ingestions run one after the other or
\* interleaved, no two job_listings rows carry the same external id.
C1_UniqueApiId ==
    \A a \in jobs, b \in jobs : a.api_id = b.api_id => a = b

\* C1 witness: a run tried to insert an external id that a row of the store
\* carries, and was refused by the constraint.
C1_Witness ==
    /\ RunFailed
    /\ ReachedCommit
    /\ \E k \in 1..Len(last.run.sess.new_jobs) :
          last.run.sess.new_jobs[k].api_id \in ApiIds(jobs)

\* C2: ingestion is idempotent: when the same raw job list is ingested again
\* right after a run, with no other request in between, the second run
\* inserts nothing, leaves the job rows as they were and ends as the first
\* one did (after a successful first run: successfully, with 0 new jobs).
C2_Idempotent ==
    (RunEnded /\ last.run.again /\ last.quiet) =>
        /\ last.inserted = {}
        /\ jobs = last.before.jobs
        /\ last.status = last.run.prev_status
        /\ (last.status = SuccessStatus => last.res.new_jobs = 0)

\* C2 witness: a list of two raw jobs was ingested successfully and the
\* second run of the same list has ended, all its ids being stored.
C2_Witness ==
    /\ RunSucceeded
    /\ last.run.again
    /\ last.run.prev_status = SuccessStatus
    /\ Len(last.run.api_response) = 2
    /\ Cardinality(jobs) >= 2
    /\ \A n \in 1..2 : Str(last.run.api_response[n].id) \in ApiIds(jobs)

\* the raw jobs of the run that has ended have pairwise distinct external ids
DistinctIds ==
    \A m \in 1..Len(last.run.api_response), n \in 1..Len(last.run.api_response) :
       m # n => last.run.api_response[m].id # last.run.api_response[n].id

\* C3: a successful ingest of a list with pairwise distinct external ids
\* inserts exactly one row for each raw job whose id was not stored, none for
\* the others, and new_jobs is the number of rows inserted.
C3_InsertsExactlyTheNew ==
    (RunSucceeded /\ DistinctIds) =>
        /\ \A n \in 1..Len(last.run.api_response) :
              LET id == Str(last.run.api_response[n].id)
                  rows == {j \in last.inserted : j.api_id = id}
              IN  IF id \in ApiIds(last.before.jobs)
                  THEN rows = {}
                  ELSE Cardinality(rows) = 1
        /\ \A j \in last.inserted :
              \E n \in 1..Len(last.run.api_response) :
                 j.api_id = Str(last.run.api_response[n].id)
        /\ last.res.new_jobs = Cardinality(last.inserted)
        /\ jobs = last.before.jobs \cup last.inserted

\* C3 witness: the store had A1, the list was [A1, A2], only A2 was inserted
\* and the summary reports 1 new job.
C3_Witness ==
    /\ RunSucceeded
    /\ Len(last.run.api_response) = 2
    /\ last.run.api_response[1].id = "A1"
    /\ last.run.api_response[2].id = "A2"
    /\ "A1" \in ApiIds(last.before.jobs)
    /\ ApiIds(last.inserted) = {"A2"}
    /\ last.res.new_jobs = 1

\* C4: ingestion is all-or-nothing: when a run ends with an exception, raised
\* while staging or by the commit, the store is what it was before: none of
\* the batch's job, company or technology rows is in it.
C4_AllOrNothing == RunFailed => StoreAsBefore

\* C4 witness: JobListingCreate raised for a job after a Company had been
\* staged for the batch, and the run ended with the error response.
C4_Witness ==
    /\ RunFailed
    /\ ~ReachedCommit
    /\ last.run.sess.new_companies # <<>>

\* the run that has ended reached its commit with the external id x staged
\* once, not having seen x in its snapshot
StagedNew(x) ==
    /\ RunEnded
    /\ ReachedCommit
    /\ x \notin last.run.existing_job_ids
    /\ Cardinality({k \in 1..Len(last.run.sess.new_jobs) :
                      last.run.sess.new_jobs[k].api_id = x}) = 1

\* ... and found x stored at its commit: another request, running at the
\* same time, had inserted it after the snapshot was taken
LostRace(x) == StagedNew(x) /\ x \in ApiIds(last.before.jobs)

\* C5: of two concurrent requests that stage the same new external id from
\* the same snapshot, the one that commits first (nothing else in its batch
\* violating a constraint) inserts the row; the one that commits second ends
\* with the error response, the uniqueness of api_id being violated, inserts
\* nothing, and the store holds exactly one row for that id.
C5_ConcurrentDuplicate ==
    \A x \in {"A1", "A2", "None"} :
       StagedNew(x) =>
          IF x \in ApiIds(last.before.jobs)
          THEN /\ last.status = ErrorStatus
               /\ "job_listings.api_id" \in last.violations
               /\ last.inserted = {}
               /\ StoreAsBefore
               /\ Cardinality({j \in jobs : j.api_id = x}) = 1
          ELSE last.violations = {} =>
                  /\ last.status = SuccessStatus
                  /\ Cardinality({j \in last.inserted : j.api_id = x}) = 1
                  /\ Cardinality({j \in jobs : j.api_id = x}) = 1

\* C5 witness: two requests staged A1 from the same snapshot; one committed,
\* the other has just ended with the conflict as its only violation.
C5_Witness ==
    /\ LostRace("A1")
    /\ RunFailed
    /\ last.violations = {"job_listings.api_id"}

\* C6: a job whose enrichment step raised is staged with its raw description,
\* an empty skill list and no technologies, whatever the jobs before it in
\* the batch had.
C6_EnrichmentBestEffort ==
    \A r \in Requests :
       \A k \in 1..Len(req[r].jobs_to_add) :
          LET jb == req[r].jobs_to_add[k]
          IN  req[r].api_response[jb.n].enrich.kind = "raise" =>
                 /\ jb.description = RawDescription
                 /\ jb.skills = <<>>
                 /\ jb.technologies = <<>>

\* the raw job has a company record without an external company id
LacksCompanyId(job_item) ==
    job_item.company_object.present /\ job_item.company_object.id = NULL

\* every Company in a list of staged or inserted companies has the external
\* company id of one of the first n raw jobs
CompaniesComeFrom(api_company_ids, api_response, n) ==
    \A c \in api_company_ids :
       \E m \in 1..n :
          /\ api_response[m].company_object.present
          /\ api_response[m].company_object.id # NULL
          /\ Str(api_response[m].company_object.id) = c

\* C7: a raw job whose company record lacks an external company id creates
\* no Company, is staged all the same, with no company link, and is stored
\* so when the batch commits; the Company rows of the batch are those of the
\* other jobs.
C7_CompanyWithoutId ==
    /\ \A r \in Requests :
          /\ \A m \in 1..(req[r].i - 1) :
                (/\ LacksCompanyId(req[r].api_response[m])
                 /\ req[r].api_response[m].valid
                 /\ Str(req[r].api_response[m].id) \notin req[r].existing_job_ids)
                => \E k \in 1..Len(req[r].jobs_to_add) :
                      /\ req[r].jobs_to_add[k].n = m
                      /\ req[r].jobs_to_add[k].company_obj_id = NoId
          /\ CompaniesComeFrom(
                {req[r].sess.new_companies[c].api_company_id
                   : c \in 1..Len(req[r].sess.new_companies)},
                req[r].api_response, req[r].i - 1)
    /\ RunSucceeded =>
          /\ \A n \in 1..Len(last.run.api_response) :
                (/\ LacksCompanyId(last.run.api_response[n])
                 /\ Str(last.run.api_response[n].id) \notin ApiIds(last.before.jobs))
                => \E j \in last.inserted :
                      /\ j.api_id = Str(last.run.api_response[n].id)
                      /\ j.company_obj_id = NoId
          /\ CompaniesComeFrom(
                {c.api_company_id : c \in companies \ last.before.companies},
                last.run.api_response, Len(last.run.api_response))

\* C7 witness: a list of two new jobs, the first with a company record
\* without id, was committed: two rows, the first job's without company link.
C7_Witness ==
    /\ RunSucceeded
    /\ Len(last.run.api_response) = 2
    /\ LacksCompanyId(last.run.api_response[1])
    /\ Cardinality(last.inserted) = 2
    /\ \E j \in last.inserted :
          /\ j.api_id = Str(last.run.api_response[1].id)
          /\ j.company_obj_id = NoId

\* C8: within one ingest, technology names that differ only in letter case
\* resolve to the same Technology object, and no second Technology is staged
\* for such a name.
C8_CaseInsensitiveTechnology ==
    \A r \in Requests :
       /\ \A k1 \in 1..Len(req[r].jobs_to_add), k2 \in 1..Len(req[r].jobs_to_add) :
             \A p \in 1..Len(req[r].jobs_to_add[k1].skills),
                q \in 1..Len(req[r].jobs_to_add[k2].skills) :
                ILike(req[r].jobs_to_add[k1].skills[p],
                      req[r].jobs_to_add[k2].skills[q])
                => req[r].jobs_to_add[k1].technologies[p]
                     = req[r].jobs_to_add[k2].technologies[q]
       /\ \A a \in 1..Len(req[r].sess.new_techs), b \in 1..Len(req[r].sess.new_techs) :
             a # b => ~ILike(req[r].sess.new_techs[a].technology_name,
                             req[r].sess.new_techs[b].technology_name)

\* C9: within one call of get_or_create_technologies, a name that occurs
\* more than once in the input is resolved to one Technology object: one new
\* row is staged for it, not one per occurrence.
C9_DedupWithinCall ==
    \A r \in Requests :
       \A k \in 1..Len(req[r].jobs_to_add) :
          LET jb == req[r].jobs_to_add[k]
          IN  \A p \in 1..Len(jb.skills), q \in 1..Len(jb.skills) :
                 jb.skills[p] = jb.skills[q]
                 => jb.technologies[p] = jb.technologies[q]

\* C10: the summary of a successful ingest reports as new_companies the number
\* of Company rows the ingest staged and as new_jobs the number of job rows
\* it staged.
C10_SummaryCounts ==
    RunSucceeded =>
       /\ last.res.new_companies = Len(last.run.sess.new_companies)
       /\ last.res.new_jobs = Len(last.run.sess.new_jobs)

\* C11: when the ingestion of a batch fails at its commit, the response
\* carries, in some field, the number of jobs the batch tried to insert.
C11_FailureCarriesCount ==
    (RunFailed /\ ReachedCommit) =>
        \E f \in DOMAIN last.body :
           f # "detail" /\ last.body[f] = Len(last.run.jobs_to_add)

\* the order of the seniority tiers
Rank(tier) ==
    CASE tier = "junior" -> 1
      [] tier = "mid_level" -> 2
      [] tier = "senior" -> 3
      [] tier = "staff" -> 4
      [] OTHER -> 5

\* the years of experience fetch_jobs was called with, and the tiers it has
\* put into the payload
GivenExperience == Get(user_input, "experience", PyNone)
SentTiers == pass_payload["job_seniority_or"].items

\* C12: the seniority list is the documented one for each band of
\* experience, empty when the experience is absent, and it is monotonic: for
\* more experience neither the lowest nor the highest tier is lower.
C12_SeniorityBands ==
    fetch_pc = "clean" =>
       /\ GivenExperience.t = "none" => SentTiers = <<>>
       /\ GivenExperience.t = "int" =>
             LET e == GivenExperience.n
             IN  /\ e < 1 => SentTiers = <<"junior">>
                 /\ (1 <= e /\ e < 3) => SentTiers = <<"junior", "mid_level">>
                 /\ (3 <= e /\ e < 7) => SentTiers = <<"mid_level", "senior">>
                 /\ (7 <= e /\ e < 10) => SentTiers = <<"senior", "staff">>
                 /\ e >= 10 => SentTiers = <<"senior", "staff", "c_level">>
                 /\ \A e2 \in e..MaxExperience :
                       LET more == map_experience_to_seniority(PyInt(e2))
                       IN  /\ Rank(SentTiers[1]) <= Rank(more[1])
                           /\ Rank(SentTiers[Len(SentTiers)]) <= Rank(more[Len(more)])

\* C12 witness: 3 years of experience gave mid_level and senior.
C12_Witness ==
    /\ fetch_pc = "clean"
    /\ GivenExperience = PyInt(3)
    /\ SentTiers = <<"mid_level", "senior">>

\* C13: no field of the payload that is posted has an empty or falsy value:
\* no None, no False, no 0, no empty string, no empty list; a criterion
\* given as an empty list and an unset remote flag are not in the payload.
C13_NoEmptyField ==
    fetch_pc = "post" =>
       /\ \A k \in DOMAIN pass_payload :
             LET v == pass_payload[k]
             IN  /\ v.t # "none"
                 /\ v.t = "bool" => v.b
                 /\ v.t = "int" => v.n # 0
                 /\ v.t = "str" => v.s # ""
                 /\ v.t = "list" => (v.items # <<>> \/ ~v.strs)
       /\ Get(user_input, "job_titles", PyList(<<>>, TRUE)) = PyList(<<>>, TRUE)
             => "job_title_pattern_or" \notin DOMAIN pass_payload
       /\ Get(user_input, "skills", PyList(<<>>, TRUE)) = PyList(<<>>, TRUE)
             => "job_technology_slug_or" \notin DOMAIN pass_payload
       /\ Get(user_input, "locations", PyList(<<>>, TRUE)) = PyList(<<>>, TRUE)
             => "job_location_pattern_or" \notin DOMAIN pass_payload
       /\ Get(user_input, "countries", PyNone) = PyList(<<>>, TRUE)
             => "job_country_code_or" \notin DOMAIN pass_payload
       /\ GivenExperience.t = "none" => "job_seniority_or" \notin DOMAIN pass_payload
       /\ Get(user_input, "remote", PyNone).t = "none"
             => "remote" \notin DOMAIN pass_payload

\* C13 witness: empty title and country lists and an unset remote flag were
\* given with a skill; the payload posted has the skill filter and the limit
\* and none of the three.
C13_Witness ==
    /\ fetch_pc = "post"
    /\ "job_titles" \in DOMAIN user_input
    /\ user_input["job_titles"] = PyList(<<>>, TRUE)
    /\ "countries" \in DOMAIN user_input
    /\ user_input["countries"] = PyList(<<>>, TRUE)
    /\ user_input["remote"] = PyNone
    /\ {"job_technology_slug_or", "limit"} \subseteq DOMAIN pass_payload
    /\ DOMAIN pass_payload \cap
          {"job_title_pattern_or", "job_country_code_or", "remote"} = {}

\* C14: every string in the title, skill, location and country filters of
\* the payload that is posted is lowercase, also when no countries are given.
C14_LowercaseFilters ==
    fetch_pc = "post" =>
       \A k \in DOMAIN pass_payload \cap
                {"job_title_pattern_or", "job_technology_slug_or",
                 "job_location_pattern_or", "job_country_code_or"} :
          LET v == pass_payload[k]
          IN  /\ v.t = "str" => v.s = Lower(v.s)
              /\ v.t = "list" =>
                    \A i \in 1..Len(v.items) : v.items[i] = Lower(v.items[i])

\* C16: the job filter returns exactly the stored jobs that meet every
\* criterion supplied: a Technology of the job named exactly as asked, the
\* location as asked; each with the names of its technologies.
C16_FilterExact ==
    listing.op = "get_jobs" =>
       /\ \A j \in jobs :
             (\E res \in listing.results : res.id = j.id)
             <=> /\ StrTruthy(listing.technology) =>
                       \E t \in technologies :
                          /\ t.id \in j.technologies
                          /\ t.technology_name = listing.technology
                 /\ StrTruthy(listing.location) =>
                       (j.location # NULL /\ j.location = listing.location)
       /\ \A res \in listing.results :
             \E j \in jobs :
                /\ res.id = j.id
                /\ res.technologies =
                      {t.technology_name :
                         t \in {u \in technologies : u.id \in j.technologies}}
       /\ Cardinality(listing.results) <= Cardinality(jobs)

\* C16 witness: asked for python in pune, of a store that holds all four
\* jobs, the filter returned job 1 alone, with its technology name.
C16_Witness ==
    /\ listing.op = "get_jobs"
    /\ listing.technology = "python"
    /\ listing.location = "pune"
    /\ jobs = QueryJobs
    /\ {res.id : res \in listing.results} = {1}
    /\ \A res \in listing.results : res.technologies = {"python"}

\* the description contains the keyword, letter case aside
ContainsIgnoreCase(description, keyword) ==
    /\ ~description.null
    /\ \E off \in 0..(Len(description.text) - Len(keyword)) :
          \A i \in 1..Len(keyword) :
             Lower(description.text[off + i]) = Lower(keyword[i])

\* C17: with skills, relevant_jobs returns only jobs whose description
\* contains one of the keywords, letter case aside, and as many of them as
\* the window of skip and limit holds; without skills the window of all
\* jobs; never more than limit.
C17_RelevantJobs ==
    listing.op = "relevant_jobs" =>
       LET wanted == IF listing.skills = <<>> THEN jobs
                     ELSE {j \in jobs :
                             \E i \in 1..Len(listing.skills) :
                                ContainsIgnoreCase(j.description, listing.skills[i])}
       IN  /\ \A res \in listing.results : \E j \in wanted : res.id = j.id
           /\ Cardinality(listing.results)
                 = Min(listing.limit, Max(0, Cardinality(wanted) - listing.skip))
           /\ Cardinality(listing.results) <= listing.limit

\* the request that has just been answered had no list from the job source:
\* the call ended with an HTTP error status or a body that is not JSON
SourceFailed(response) == response.status_code >= 400 \/ ~response.json_ok

\* C15: when the call to the job source fails, save_job_db is never entered
\* with that answer; the endpoint answers 500 with the fetch failure and the
\* store is what it was.
C15_FetchFailure ==
    /\ \A r \in Requests :
          req[r].pc = "loop" => ~SourceFailed(req[r].response)
    /\ (last.r # 0 /\ SourceFailed(last.run.response)) =>
          /\ last.run.pc = "idle"
          /\ last.status = ErrorStatus
          /\ last.body = FetchErrorBody
          /\ last.inserted = {}
          /\ StoreAsBefore

\* C15 witness: the job source answered 422 when the store held a job, and
\* the request has been answered with the fetch failure.
C15_Witness ==
    /\ last.r # 0
    /\ last.run.response.status_code = 422
    /\ last.body = FetchErrorBody
    /\ jobs # {}

\* C19: no step of an ingest, successful or failed, removes or changes a
\* stored job, company or technology row: the rows after the step include
\* the rows before it.
C19_NeverDeletes ==
    [][/\ jobs \subseteq jobs'
       /\ companies \subseteq companies'
       /\ technologies \subseteq technologies']_vars

\* C19 witness: an ingest has committed new rows into a store that held job,
\* company and technology rows, and all of them are still there.
C19_Witness ==
    /\ RunSucceeded
    /\ last.inserted # {}
    /\ last.before.jobs # {}
    /\ last.before.companies # {}
    /\ last.before.technologies # {}
    /\ last.before.jobs \subseteq jobs
    /\ Cardinality(jobs) = Cardinality(last.before.jobs) + Cardinality(last.inserted)

\* C18: the records of user_activity_log, user_resume and match_score_log are
\* append-only: no step of a user endpoint (the logging endpoints, the user
\* update, and every other one) modifies or removes a record that exists,
\* and a logging endpoint that succeeds adds exactly one record.
C18_AppendOnly ==
    [][/\ user_activity_log \subseteq user_activity_log'
       /\ user_resume \subseteq user_resume'
       /\ match_score_log \subseteq match_score_log'
       /\ (outcome'.op \in LoggingOps /\ outcome'.status = SuccessStatus)
             => Records' = Records + 1
       /\ outcome'.op \notin LoggingOps => Records' = Records]_vars

\* a logging endpoint has succeeded while a record was already logged
C18_Witness ==
    /\ outcome.op \in LoggingOps
    /\ outcome.status = SuccessStatus
    /\ Records > 1

\* C20: on every guarded endpoint, a request whose token is missing, empty
\* or unverifiable ends with 401, the endpoint body has not run and the
\* store is as it was.
C20_Unauthorized ==
    [][(outcome'.op \in GuardedOps
        /\ outcome'.token \in {"missing", "empty", "invalid"})
       => /\ outcome'.status = Unauthorized
          /\ ~outcome'.executed
          /\ UNCHANGED <<jobs, companies, technologies, users,
                         user_activity_log, user_resume, match_score_log>>]_vars

\* the staged jobs of the run that has ended whose raw job names the
\* external company id cid
StagedFor(cid) ==
    {k \in 1..Len(last.run.jobs_to_add) :
       LET co == last.run.api_response[last.run.jobs_to_add[k].n].company_object
       IN  co.present /\ co.id = cid}

\* the Company objects the run that has ended has staged for cid
PendingCompanies(cid) ==
    {c \in 1..Len(last.run.sess.new_companies) :
       last.run.sess.new_companies[c].api_company_id = cid}

\* C23: when several new raw jobs of one batch name the same external
\* company id, not stored so far, one Company is staged for that id, and,
\* nothing but the company constraints being in question, the batch commits
\* and the store then holds exactly one Company row with that id.
C23_OneCompanyPerBatch ==
    \A cid \in {"C1", "C2"} :
       (/\ RunEnded
        /\ ReachedCommit
        /\ DistinctIds
        /\ Cardinality(StagedFor(cid)) > 1
        /\ cid \notin {c.api_company_id : c \in last.before.companies})
       => /\ Cardinality(PendingCompanies(cid)) = 1
          /\ last.violations \subseteq
                {"companies.api_company_id", "companies.company_domain"}
             => /\ last.status = SuccessStatus
                /\ Cardinality({c \in companies : c.api_company_id = cid}) = 1

\* C24: a job that is inserted and whose raw company record carries an
\* external company id refers to the Company row of that id, whether the
\* Company was stored before or staged by the same ingest.
C24_CompanyReference ==
    RunSucceeded =>
       \A n \in 1..Len(last.run.api_response) :
          LET job_item == last.run.api_response[n]
          IN  (job_item.company_object.present
               /\ job_item.company_object.id # NULL)
              => \A j \in last.inserted :
                    j.api_id = Str(job_item.id) =>
                       \E c \in companies :
                          /\ c.api_company_id = Str(job_item.company_object.id)
                          /\ j.company_obj_id = c.id

\* C27: a raw job without id is stored with a null external id, and a raw
\* job without id is staged although such a job was ingested before.
C27_MissingIdIsNull ==
    /\ RunSucceeded =>
          \A k \in 1..Len(last.run.jobs_to_add) :
             LET jb == last.run.jobs_to_add[k]
             IN  last.run.api_response[jb.n].id = NULL =>
                    \E j \in last.inserted : j.api_id = NULL
    /\ \A j \in jobs : j.api_id # "None"
    /\ \A r \in Requests :
          \A m \in 1..(req[r].i - 1) :
             (req[r].api_response[m].id = NULL /\ req[r].api_response[m].valid)
             => \E k \in 1..Len(req[r].jobs_to_add) :
                   req[r].jobs_to_add[k].n = m

\* the positions of the external id x in the raw job list of the run, and
\* the staged jobs with that id
Occurrences(x) ==
    {n \in 1..Len(last.run.api_response) : Str(last.run.api_response[n].id) = x}

StagedWithId(x) ==
    {k \in 1..Len(last.run.jobs_to_add) : last.run.jobs_to_add[k].api_id = x}

\* C28: when a raw job list holds an external id, not stored so far, more
\* than once, at most one job is staged for that id, the ingest ends
\* successfully (no other constraint being in question), and the other
\* new jobs of the list are stored.
C28_RepeatedIdInBatch ==
    \A x \in {"A1", "A2"} :
       (/\ RunEnded
        /\ ReachedCommit
        /\ Cardinality(Occurrences(x)) > 1
        /\ x \notin last.run.existing_job_ids
        /\ x \notin ApiIds(last.before.jobs)
        /\ last.violations \subseteq {"job_listings.api_id"})
       => /\ Cardinality(StagedWithId(x)) <= 1
          /\ last.status = SuccessStatus
          /\ \A n \in 1..Len(last.run.api_response) :
                Str(last.run.api_response[n].id) \in ApiIds(jobs)

\* C26: whatever the criteria, the payload that is posted carries the
\* ordering by posting date then discovery time, both descending, the
\* max-age filter of 30 days, and the two flags, set to false, that switch
\* off the counting of all results and the blurring of company data.
C26_FixedFields ==
    fetch_pc = "post" =>
       /\ {"order_by", "posted_at_max_age_days", "include_total_results",
           "blur_company_data"} \subseteq DOMAIN pass_payload
       /\ pass_payload["order_by"] = OrderBy
       /\ pass_payload["posted_at_max_age_days"] = PyInt(30)
       /\ pass_payload["include_total_results"] = PyBool(FALSE)
       /\ pass_payload["blur_company_data"] = PyBool(FALSE)

\* the names of the skills of the user id after the step
SkillNamesAfter(id) ==
    {t.technology_name :
       t \in {x \in technologies' :
                \E u \in users' : u.id = id /\ x.id \in u.skills}}

\* the trimmed, lowercased, non-empty tokens of a comma-separated text
TokenSet(pieces) == {Lower(Strip(p)) : p \in Range(pieces)} \ {""}

\* C21: an update_user of a stored user with a non-empty skills text
\* succeeds, also when a token occurs twice in the text, and the skills of
\* the user are then exactly the trimmed, lowercased, non-empty tokens of
\* the text, whatever they were before.
C21_SkillsReplaced ==
    [][\A id \in GivenIds, update_data \in SkillUpdates :
          (/\ id \in Ids(users)
           /\ SkillsGiven(update_data)
           /\ update_user(id, "valid", update_data))
          => /\ outcome'.status = SuccessStatus
             /\ SkillNamesAfter(id) = TokenSet(update_data.skills)]_vars

\* C25: no two Technology rows have names that are equal ignoring letter
\* case, and a Technology row, once created, keeps its name and slug.
C25_TechnologyIdentity ==
    [][/\ \A a \in technologies', b \in technologies' :
             ILike(a.technology_name, b.technology_name) => a = b
       /\ technologies \subseteq technologies']_vars

\* C22: no two User rows share an email, also after two create_user
\* requests for one email have both passed the existence check before
\* either committed; and a create_user whose existence check finds the
\* email registered answers 400 and creates no user.
C22_UniqueEmail ==
    [][/\ \A a \in users', b \in users' : a.email_id = b.email_id => a = b
       /\ \A r \in Requests, user_in \in SignupInputs :
             (EmailRegistered(user_in.email) /\ create_user_check(r, user_in))
             => /\ outcome'.status = BadRequest
                /\ users' = users]_vars

\* C22 witness: of two requests that passed the check for one email, one
\* has committed and the other has just been refused by the constraint.
C22_Witness ==
    /\ outcome.op = "create_user"
    /\ outcome.status = ErrorStatus
    /\ Cardinality(users) = 1
    /\ \A r \in Requests : signup[r].pc = "idle"

====
